---- MODULE Spec2Model ----
(***************************************************************************)
(* A model of ai_mental_wellbeing_agent_simple.py: the Streamlit script    *)
(* that collects an intake form, formats it into a task string, runs an    *)
(* autogen group chat and splits the assistant turns of the returned chat  *)
(* history into the three buckets of st.session_state.output.              *)
(*                                                                         *)
(* Python strings are sequences of one-character strings, so that          *)
(* concatenation and str.split are computed rather than assumed.  Values   *)
(* that may be a string, None or an absent dict key are tagged records.    *)
(***************************************************************************)
EXTENDS Integers, Sequences, FiniteSets, TLC

VARIABLES
    output,         \* st.session_state.output: the three buckets
    pc,             \* per script run: the statement it is at
    api_key,        \* per script run: the sidebar text input
    form,           \* per script run: the six intake widgets
    task,           \* per script run: the local `task`
    agents,         \* per script run: the autogen objects constructed so far
    conversation,   \* per script run: the local `conversation`
    full_response,  \* per script run: the local `full_response`
    sections,       \* per script run: the local `sections`
    exc,            \* per script run: the exception in flight / handled
    shown,          \* per script run: the elements rendered in this pass, in order
    pre,            \* history: st.session_state.output when the button was pressed
    stored,         \* history: this run has executed the assignment of lines 183-187
    lastStore,      \* history: the run whose assignment was the latest (0: none)
    ticket,         \* history: the position of this run's activation among all activations
    nsubmit         \* number of button activations so far

vars == << output, pc, api_key, form, task, agents, conversation, full_response,
           sections, exc, shown, pre, stored, lastStore, ticket, nsubmit >>

----------------------------------------------------------------------------
(* Bounds of the model *)

MaxTurns == 3
MaxText == 2
MaxSel == 3
MaxSubmit == 2
SessionTurns == 2

----------------------------------------------------------------------------
(* Python values *)

NL == "\n"
Sep == << NL, NL >>
Chars == { "a", NL }

Str(s) == [k |-> "str", s |-> s]
PyNone == [k |-> "none", s |-> << >>]
Absent == [k |-> "absent", s |-> << >>]

RECURSIVE StringsUpTo(_)
StringsUpTo(n) ==
    IF n = 0 THEN { << >> }
    ELSE LET shorter == StringsUpTo(n - 1)
         IN shorter \cup { Append(s, c) : s \in shorter, c \in Chars }

RECURSIVE SeqsUpTo(_, _)
SeqsUpTo(S, n) ==
    IF n = 0 THEN { << >> }
    ELSE LET shorter == SeqsUpTo(S, n - 1)
         IN shorter \cup { Append(s, x) : s \in shorter, x \in S }

\* dict.get(key, default) on a message whose field may be absent
dict_get(value, default) == IF value.k = "absent" THEN default ELSE value

\* a + b on two Python values: a TypeError unless both are strings
str_add(a, b) ==
    IF a.k = "str" /\ b.k = "str"
    THEN [ok |-> TRUE, val |-> a.s \o b.s]
    ELSE [ok |-> FALSE, val |-> << >>]

\* the first index at or after i where sep occurs in s, 0 if none
RECURSIVE str_find(_, _, _)
str_find(s, sep, i) ==
    IF i + Len(sep) - 1 > Len(s) THEN 0
    ELSE IF SubSeq(s, i, i + Len(sep) - 1) = sep THEN i
    ELSE str_find(s, sep, i + 1)

\* str.split(sep): left to right, non-overlapping occurrences of sep
RECURSIVE str_split(_, _)
str_split(s, sep) ==
    LET i == str_find(s, sep, 1)
    IN IF i = 0 THEN << s >>
       ELSE << SubSeq(s, 1, i - 1) >> \o str_split(SubSeq(s, i + Len(sep), Len(s)), sep)

\* sep.join(xs) over a list of labels, as a sequence of tokens
RECURSIVE str_join(_, _)
str_join(sep, xs) ==
    IF xs = << >> THEN << >>
    ELSE IF Len(xs) = 1 THEN << xs[1] >>
    ELSE << xs[1], sep >> \o str_join(sep, Tail(xs))

----------------------------------------------------------------------------
(* The widgets and the prompt (lines 37-89) *)

SupportOptions == { "Family", "Friends", "Therapist", "Support Groups", "None" }
SymptomOptions == { "Anxiety", "Depression", "Insomnia", "Fatigue", "Loss of Interest",
                    "Difficulty Concentrating", "Changes in Appetite", "Social Withdrawal",
                    "Mood Swings", "Physical Discomfort" }
StressOptions == 1 .. 10

NoRepeat(xs) == \A i, j \in 1 .. Len(xs) : xs[i] = xs[j] => i = j

SymptomsWellFormed(f) ==
    /\ NoRepeat(f.current_symptoms)
    /\ \A i \in 1 .. Len(f.current_symptoms) : f.current_symptoms[i] \in SymptomOptions

\* what st.multiselect returns: the chosen labels, each once, in selection order
Selections(options, n) == { xs \in SeqsUpTo(options, n) : NoRepeat(xs) }

Digit == << "0", "1", "2", "3", "4", "5", "6", "7", "8", "9" >>

\* str(n) of a non-negative integer, as its decimal digits
RECURSIVE int_str(_)
int_str(n) ==
    IF n < 10 THEN << Digit[n + 1] >>
    ELSE int_str(n \div 10) \o << Digit[(n % 10) + 1] >>

\* the select_slider's options: f"{i}" for i in range(0, 13)
SleepOptions == { int_str(i) : i \in 0 .. 12 }

\* the widgets' values when the user has touched nothing
DefaultForm ==
    [ mental_state |-> "", sleep_pattern |-> int_str(7), stress_level |-> 5,
      support_system |-> << >>, recent_changes |-> "", current_symptoms |-> << >> ]

\* faulty variant: the label "None" alone is taken for an empty selection
format_list_none_label(xs) ==
    IF xs # << >> /\ xs # << "None" >> THEN str_join(", ", xs) ELSE << "None reported" >>

\* ', '.join(xs) if xs else 'None reported' (lines 81 and 83)
format_list(xs) == IF xs # << >> THEN str_join(", ", xs) ELSE << "None reported" >>

\* the f-string of lines 75-89: one token sequence per line of the template
FormatTask(f) ==
    << << "Create a comprehensive mental health support plan based on:" >>,
       << "Emotional State: ", f.mental_state >>,
       << "Sleep: " >> \o f.sleep_pattern \o << " hours per night" >>,
       << "Stress Level: " >> \o int_str(f.stress_level) \o << "/10" >>,
       << "Support System: " >> \o format_list(f.support_system),
       << "Recent Changes: ", f.recent_changes >>,
       << "Current Symptoms: " >> \o format_list(f.current_symptoms),
       << "Please provide a structured response with three sections:" >>,
       << "1. Assessment: Analyze the emotional state and psychological needs" >>,
       << "2. Action Plan: Provide immediate coping strategies and resources" >>,
       << "3. Follow-up Strategy: Design long-term support and prevention plans" >> >>

AgentNames == << "assessment_agent", "action_agent", "followup_agent", "user_proxy",
                 "groupchat", "manager" >>

----------------------------------------------------------------------------
(* The response segmentation (lines 170-187) *)

\* faulty variant: the loop without the role test of line 176
RECURSIVE concat_loop_unfiltered(_, _)
concat_loop_unfiltered(conv, acc) ==
    IF conv = << >> THEN [ok |-> TRUE, val |-> acc]
    ELSE LET piece == str_add(dict_get(Head(conv).content, Str(<< >>)), Str(Sep))
         IN IF piece.ok
            THEN concat_loop_unfiltered(Tail(conv), acc \o piece.val)
            ELSE [ok |-> FALSE, val |-> acc]

\* the loop of lines 174-177, from accumulator acc over the remaining messages;
\* ok is FALSE when content + "\n\n" raises TypeError
RECURSIVE concat_loop(_, _)
concat_loop(conv, acc) ==
    IF conv = << >> THEN [ok |-> TRUE, val |-> acc]
    ELSE LET message == Head(conv)
         IN IF message.role = "assistant"
            THEN LET piece == str_add(dict_get(message.content, Str(<< >>)), Str(Sep))
                 IN IF piece.ok
                    THEN concat_loop(Tail(conv), acc \o piece.val)
                    ELSE [ok |-> FALSE, val |-> acc]
            ELSE concat_loop(Tail(conv), acc)

\* faulty variant: the action bucket reads the index of the followup bucket
make_output_shifted(full, secs) ==
    [ assessment |-> IF Len(secs) > 0 THEN secs[1] ELSE full,
      action |-> IF Len(secs) > 2 THEN secs[3] ELSE << >>,
      followup |-> IF Len(secs) > 2 THEN secs[3] ELSE << >> ]

\* the dict literal of lines 183-187
make_output(full, secs) ==
    [ assessment |-> IF Len(secs) > 0 THEN secs[1] ELSE full,
      action |-> IF Len(secs) > 1 THEN secs[2] ELSE << >>,
      followup |-> IF Len(secs) > 2 THEN secs[3] ELSE << >> ]

EmptyOutput == [ assessment |-> << >>, action |-> << >>, followup |-> << >> ]

----------------------------------------------------------------------------
(* The script run: one run of lines 68-203 per button activation *)

Runs == { 1, 2 }

NoExc == [at |-> "", msg |-> ""]
Element(kind, text) == [kind |-> kind, text |-> text]

KeyMissing == Element("error", << "Please enter your OpenAI API key." >>)
Spinner == Element("spinner", << "AI Agents are analyzing your situation..." >>)
ErrorPanel(msg) ==
    << Element("error", << "An error occurred: ", msg >>),
       Element("error", << "Please check your API key and try again." >>) >>
Success == Element("success", << "Mental health support plan generated successfully!" >>)

TypeErrorText == "unsupported operand type(s) for +: 'NoneType' and 'str'"
ChatErrors == { "AuthenticationError", "RateLimitError" }
AgentErrors == { "ImportError" }
DisplayErrors == { "StreamlitAPIException" }

Init ==
    /\ output = EmptyOutput
    /\ pc = [h \in Runs |-> "idle"]
    /\ api_key = [h \in Runs |-> ""]
    /\ form = [h \in Runs |-> DefaultForm]
    /\ task = [h \in Runs |-> << >>]
    /\ agents = [h \in Runs |-> << >>]
    /\ conversation = [h \in Runs |-> << >>]
    /\ full_response = [h \in Runs |-> << >>]
    /\ sections = [h \in Runs |-> << >>]
    /\ exc = [h \in Runs |-> NoExc]
    /\ shown = [h \in Runs |-> << >>]
    /\ pre = [h \in Runs |-> EmptyOutput]
    /\ stored = [h \in Runs |-> FALSE]
    /\ lastStore = 0
    /\ ticket = [h \in Runs |-> 0]
    /\ nsubmit = 0

\* faulty variant: the else of line 71 is missing, the pipeline starts anyway
SubmitNoKeyFallsThrough(h, Forms) ==
    /\ pc[h] = "idle"
    /\ nsubmit < MaxSubmit
    /\ \E f \in Forms : form' = [form EXCEPT ![h] = f]
    /\ api_key' = [api_key EXCEPT ![h] = ""]
    /\ pre' = [pre EXCEPT ![h] = output]
    /\ shown' = [shown EXCEPT ![h] = << KeyMissing, Spinner >>]
    /\ pc' = [pc EXCEPT ![h] = "task"]
    /\ nsubmit' = nsubmit + 1
    /\ ticket' = [ticket EXCEPT ![h] = nsubmit + 1]
    /\ UNCHANGED << output, task, agents, conversation, full_response, sections, exc,
                    stored, lastStore >>

\* the button is activated with an empty credential (lines 68-70)
SubmitNoKey(h, Forms) ==
    /\ pc[h] = "idle"
    /\ nsubmit < MaxSubmit
    /\ \E f \in Forms : form' = [form EXCEPT ![h] = f]
    /\ api_key' = [api_key EXCEPT ![h] = ""]
    /\ pre' = [pre EXCEPT ![h] = output]
    /\ shown' = [shown EXCEPT ![h] = << KeyMissing >>]
    /\ pc' = [pc EXCEPT ![h] = "done"]
    /\ nsubmit' = nsubmit + 1
    /\ ticket' = [ticket EXCEPT ![h] = nsubmit + 1]
    /\ UNCHANGED << output, task, agents, conversation, full_response, sections, exc,
                    stored, lastStore >>

\* the button is activated with a credential: the spinner opens (lines 68-72)
SubmitWithKey(h, Keys, Forms) ==
    /\ pc[h] = "idle"
    /\ nsubmit < MaxSubmit
    /\ \E f \in Forms : form' = [form EXCEPT ![h] = f]
    /\ \E k \in Keys : k # "" /\ api_key' = [api_key EXCEPT ![h] = k]
    /\ pre' = [pre EXCEPT ![h] = output]
    /\ shown' = [shown EXCEPT ![h] = << Spinner >>]
    /\ pc' = [pc EXCEPT ![h] = "task"]
    /\ nsubmit' = nsubmit + 1
    /\ ticket' = [ticket EXCEPT ![h] = nsubmit + 1]
    /\ UNCHANGED << output, task, agents, conversation, full_response, sections, exc,
                    stored, lastStore >>

\* faulty variant: the record is reset before the pipeline starts
BuildTaskClearsRecord(h) ==
    /\ pc[h] = "task"
    /\ task' = [task EXCEPT ![h] = FormatTask(form[h])]
    /\ output' = EmptyOutput
    /\ pc' = [pc EXCEPT ![h] = "agents"]
    /\ UNCHANGED << api_key, form, agents, conversation, full_response,
                    sections, exc, shown, pre, stored, lastStore, ticket, nsubmit >>

\* task = f"""...""" (lines 75-89)
BuildTask(h) ==
    /\ pc[h] = "task"
    /\ task' = [task EXCEPT ![h] = FormatTask(form[h])]
    /\ pc' = [pc EXCEPT ![h] = "agents"]
    /\ UNCHANGED << output, api_key, form, agents, conversation, full_response,
                    sections, exc, shown, pre, stored, lastStore, ticket, nsubmit >>

\* an exception propagates to the except clause of line 201
Raise(h, at, msg) ==
    /\ exc' = [exc EXCEPT ![h] = [at |-> at, msg |-> msg]]
    /\ pc' = [pc EXCEPT ![h] = "except"]

\* the agents, the group chat and its manager are built (lines 92-162)
CreateAgents(h) ==
    /\ pc[h] = "agents"
    /\ agents' = [agents EXCEPT ![h] = AgentNames]
    /\ pc' = [pc EXCEPT ![h] = "chat"]
    /\ UNCHANGED << output, api_key, form, task, conversation, full_response,
                    sections, exc, shown, pre, stored, lastStore, ticket, nsubmit >>

\* a constructor of lines 98-162 raises
CreateAgentsRaises(h) ==
    /\ pc[h] = "agents"
    /\ \E e \in AgentErrors : Raise(h, "agents", e)
    /\ UNCHANGED << output, api_key, form, task, agents, conversation, full_response,
                    sections, shown, pre, stored, lastStore, ticket, nsubmit >>

\* user_proxy.initiate_chat returns a chat history (lines 165-171)
InitiateChat(h, Convs) ==
    /\ pc[h] = "chat"
    /\ \E c \in Convs : conversation' = [conversation EXCEPT ![h] = c]
    /\ pc' = [pc EXCEPT ![h] = "segment"]
    /\ UNCHANGED << output, api_key, form, task, agents, full_response,
                    sections, exc, shown, pre, stored, lastStore, ticket, nsubmit >>

\* user_proxy.initiate_chat raises (line 165)
InitiateChatRaises(h) ==
    /\ pc[h] = "chat"
    /\ \E e \in ChatErrors : Raise(h, "chat", e)
    /\ UNCHANGED << output, api_key, form, task, agents, conversation, full_response,
                    sections, shown, pre, stored, lastStore, ticket, nsubmit >>

\* the loop and the split run to their end (lines 174-180)
Segment(h) ==
    /\ pc[h] = "segment"
    /\ LET r == concat_loop(conversation[h], << >>)
       IN /\ r.ok
          /\ full_response' = [full_response EXCEPT ![h] = r.val]
          /\ sections' = [sections EXCEPT ![h] = str_split(r.val, Sep)]
    /\ pc' = [pc EXCEPT ![h] = "store"]
    /\ UNCHANGED << output, api_key, form, task, agents, conversation,
                    exc, shown, pre, stored, lastStore, ticket, nsubmit >>

\* the loop raises TypeError at line 177; full_response keeps what it had
SegmentRaises(h) ==
    /\ pc[h] = "segment"
    /\ LET r == concat_loop(conversation[h], << >>)
       IN /\ ~r.ok
          /\ full_response' = [full_response EXCEPT ![h] = r.val]
    /\ Raise(h, "segment", TypeErrorText)
    /\ UNCHANGED << output, api_key, form, task, agents, conversation,
                    sections, shown, pre, stored, lastStore, ticket, nsubmit >>

\* faulty variant: the buckets are written one by one into the existing dict and
\* the run is descheduled after the first
StorePartial(h) ==
    /\ pc[h] = "store"
    /\ output' = [output EXCEPT
                    !.assessment = make_output(full_response[h], sections[h]).assessment]
    /\ stored' = [stored EXCEPT ![h] = TRUE]
    /\ lastStore' = h
    /\ pc' = [pc EXCEPT ![h] = "show_assessment"]
    /\ UNCHANGED << api_key, form, task, agents, conversation, full_response,
                    sections, exc, shown, pre, ticket, nsubmit >>

\* st.session_state.output = {...} (lines 183-187): one assignment of a new dict
Store(h) ==
    /\ pc[h] = "store"
    /\ output' = make_output(full_response[h], sections[h])
    /\ stored' = [stored EXCEPT ![h] = TRUE]
    /\ lastStore' = h
    /\ pc' = [pc EXCEPT ![h] = "show_assessment"]
    /\ UNCHANGED << api_key, form, task, agents, conversation, full_response,
                    sections, exc, shown, pre, ticket, nsubmit >>

DisplaySteps == { "show_assessment", "show_action", "show_followup", "show_success" }

\* the element a display step renders, read from the session state at that moment
Rendered(step) ==
    CASE step = "show_assessment" -> Element("Situation Assessment", output.assessment)
      [] step = "show_action" -> Element("Action Plan & Resources", output.action)
      [] step = "show_followup" -> Element("Long-term Support Strategy", output.followup)
      [] step = "show_success" -> Success

AfterStep(step) ==
    CASE step = "show_assessment" -> "show_action"
      [] step = "show_action" -> "show_followup"
      [] step = "show_followup" -> "show_success"
      [] step = "show_success" -> "done"

\* one of the expanders or st.success renders (lines 190-199)
Display(h) ==
    /\ pc[h] \in DisplaySteps
    /\ shown' = [shown EXCEPT ![h] = Append(@, Rendered(pc[h]))]
    /\ pc' = [pc EXCEPT ![h] = AfterStep(pc[h])]
    /\ UNCHANGED << output, api_key, form, task, agents, conversation, full_response,
                    sections, exc, pre, stored, lastStore, ticket, nsubmit >>

\* a Streamlit call of lines 190-199 raises
DisplayRaises(h) ==
    /\ pc[h] \in DisplaySteps
    /\ \E e \in DisplayErrors : Raise(h, pc[h], e)
    /\ UNCHANGED << output, api_key, form, task, agents, conversation, full_response,
                    sections, shown, pre, stored, lastStore, ticket, nsubmit >>

\* faulty variant: the except clause also resets the record
HandleExceptionResets(h) ==
    /\ pc[h] = "except"
    /\ shown' = [shown EXCEPT ![h] = @ \o ErrorPanel(exc[h].msg)]
    /\ output' = EmptyOutput
    /\ pc' = [pc EXCEPT ![h] = "done"]
    /\ UNCHANGED << api_key, form, task, agents, conversation, full_response,
                    sections, exc, pre, stored, lastStore, ticket, nsubmit >>

\* faulty variant: the except clause renders nothing
HandleExceptionSwallows(h) ==
    /\ pc[h] = "except"
    /\ pc' = [pc EXCEPT ![h] = "done"]
    /\ UNCHANGED << output, api_key, form, task, agents, conversation, full_response,
                    sections, exc, shown, pre, stored, lastStore, ticket, nsubmit >>

\* except Exception as e: the two st.error calls (lines 201-203)
HandleException(h) ==
    /\ pc[h] = "except"
    /\ shown' = [shown EXCEPT ![h] = @ \o ErrorPanel(exc[h].msg)]
    /\ pc' = [pc EXCEPT ![h] = "done"]
    /\ UNCHANGED << output, api_key, form, task, agents, conversation, full_response,
                    sections, exc, pre, stored, lastStore, ticket, nsubmit >>

\* the script ends and is run again from line 1 on the next interaction: the
\* locals are fresh, st.session_state.output is kept (line 7)
Rerun(h) ==
    /\ pc[h] = "done"
    /\ nsubmit < MaxSubmit
    /\ pc' = [pc EXCEPT ![h] = "idle"]
    /\ api_key' = [api_key EXCEPT ![h] = ""]
    /\ form' = [form EXCEPT ![h] = DefaultForm]
    /\ task' = [task EXCEPT ![h] = << >>]
    /\ agents' = [agents EXCEPT ![h] = << >>]
    /\ conversation' = [conversation EXCEPT ![h] = << >>]
    /\ full_response' = [full_response EXCEPT ![h] = << >>]
    /\ sections' = [sections EXCEPT ![h] = << >>]
    /\ exc' = [exc EXCEPT ![h] = NoExc]
    /\ shown' = [shown EXCEPT ![h] = << >>]
    /\ pre' = [pre EXCEPT ![h] = output]
    /\ stored' = [stored EXCEPT ![h] = FALSE]
    /\ UNCHANGED << output, lastStore, ticket, nsubmit >>

----------------------------------------------------------------------------
(* The inputs the environment supplies *)

Turn(role, content) == [role |-> role, content |-> content]

\* assistant turns with every text up to n characters, a null text or no text key
AssistantTurns(n) ==
    { Turn("assistant", c) : c \in { Str(t) : t \in StringsUpTo(n) } \cup { PyNone, Absent } }

\* turns of another role, or with no role key
OtherTurns == { Turn(r, c) : r \in { "user", "absent" }, c \in { Str(<< "a" >>), PyNone } }

SegConvs == SeqsUpTo(AssistantTurns(MaxText) \cup OtherTurns, MaxTurns)

SessionTurnSet ==
    { Turn("assistant", Str(<< "a" >>)), Turn("assistant", Str(<< "a", NL, NL, "a" >>)),
      Turn("assistant", PyNone), Turn("user", Str(<< "a" >>)) }

SessionConvs == SeqsUpTo(SessionTurnSet, SessionTurns)

\* a record an earlier successful run of the session has stored
PriorOutput == [ assessment |-> << "a" >>, action |-> << "a" >>, followup |-> << "a" >> ]

ConcConvs ==
    { << >>,
      << Turn("assistant", Str(<< "a" >>)) >>,
      << Turn("user", Str(<< "a" >>)), Turn("assistant", Str(<< "a", NL, NL, "a" >>)) >>,
      << Turn("assistant", PyNone) >> }

Keys == { "sk-1" }

SessionForms ==
    { f \in { DefaultForm,
      [ mental_state |-> "anxious", sleep_pattern |-> int_str(4), stress_level |-> 10,
        support_system |-> << "None" >>, recent_changes |-> "new job",
        current_symptoms |-> << "Insomnia", "Anxiety" >> ] } : SymptomsWellFormed(f) }

PromptForms ==
    { [ mental_state |-> m, sleep_pattern |-> sl, stress_level |-> st,
        support_system |-> su, recent_changes |-> "", current_symptoms |-> sy ] :
      m \in { "anxious" }, sl \in SleepOptions, st \in StressOptions,
      su \in Selections(SupportOptions, MaxSel),
      sy \in { << >>, << "Insomnia", "Anxiety" >> } }

----------------------------------------------------------------------------
(* Spec: one browser session, one script run at a time *)

Next ==
    \/ SubmitNoKey(1, SessionForms)
    \/ SubmitWithKey(1, Keys, SessionForms)
    \/ BuildTask(1)
    \/ CreateAgents(1)
    \/ CreateAgentsRaises(1)
    \/ InitiateChat(1, SessionConvs)
    \/ InitiateChatRaises(1)
    \/ Segment(1)
    \/ SegmentRaises(1)
    \/ Store(1)
    \/ Display(1)
    \/ DisplayRaises(1)
    \/ HandleException(1)
    \/ Rerun(1)

Spec == Init /\ [][Next]_vars

(* ConcSpec: two script runs of the same session in flight at once *)

ConcNext ==
    \E h \in Runs :
        \/ SubmitNoKey(h, { DefaultForm })
        \/ SubmitWithKey(h, Keys, { DefaultForm })
        \/ BuildTask(h)
        \/ CreateAgents(h)
        \/ CreateAgentsRaises(h)
        \/ InitiateChat(h, ConcConvs)
        \/ InitiateChatRaises(h)
        \/ Segment(h)
        \/ SegmentRaises(h)
        \/ Store(h)
        \/ Display(h)
        \/ DisplayRaises(h)
        \/ HandleException(h)
        \/ Rerun(h)

ConcSpec == Init /\ [][ConcNext]_vars

(* SegSpec: the response segmentation applied to every chat history, in a    *)
(* session whose record an earlier run has filled                          *)

SegInit ==
    /\ output = PriorOutput
    /\ pc = [h \in Runs |-> IF h = 1 THEN "segment" ELSE "idle"]
    /\ api_key = [h \in Runs |-> IF h = 1 THEN "sk-1" ELSE ""]
    /\ form = [h \in Runs |-> DefaultForm]
    /\ task = [h \in Runs |-> IF h = 1 THEN FormatTask(DefaultForm) ELSE << >>]
    /\ agents = [h \in Runs |-> IF h = 1 THEN AgentNames ELSE << >>]
    /\ \E c \in SegConvs : conversation = [h \in Runs |-> IF h = 1 THEN c ELSE << >>]
    /\ full_response = [h \in Runs |-> << >>]
    /\ sections = [h \in Runs |-> << >>]
    /\ exc = [h \in Runs |-> NoExc]
    /\ shown = [h \in Runs |-> IF h = 1 THEN << Spinner >> ELSE << >>]
    /\ pre = [h \in Runs |-> IF h = 1 THEN output ELSE EmptyOutput]
    /\ stored = [h \in Runs |-> FALSE]
    /\ lastStore = 0
    /\ ticket = [h \in Runs |-> IF h = 1 THEN 1 ELSE 0]
    /\ nsubmit = 1

SegNext ==
    \/ Segment(1)
    \/ SegmentRaises(1)
    \/ Store(1)

SegSpec == SegInit /\ [][SegNext]_vars

(* PromptSpec: the prompt formatting applied to every form *)

PromptInit ==
    /\ output = EmptyOutput
    /\ pc = [h \in Runs |-> IF h = 1 THEN "task" ELSE "idle"]
    /\ api_key = [h \in Runs |-> IF h = 1 THEN "sk-1" ELSE ""]
    /\ \E f \in PromptForms : form = [h \in Runs |-> IF h = 1 THEN f ELSE DefaultForm]
    /\ task = [h \in Runs |-> << >>]
    /\ agents = [h \in Runs |-> << >>]
    /\ conversation = [h \in Runs |-> << >>]
    /\ full_response = [h \in Runs |-> << >>]
    /\ sections = [h \in Runs |-> << >>]
    /\ exc = [h \in Runs |-> NoExc]
    /\ shown = [h \in Runs |-> IF h = 1 THEN << Spinner >> ELSE << >>]
    /\ pre = [h \in Runs |-> EmptyOutput]
    /\ stored = [h \in Runs |-> FALSE]
    /\ lastStore = 0
    /\ ticket = [h \in Runs |-> IF h = 1 THEN 1 ELSE 0]
    /\ nsubmit = 1

PromptNext == BuildTask(1)

PromptSpec == PromptInit /\ [][PromptNext]_vars

----------------------------------------------------------------------------
(* Vocabulary of the properties *)

PanelKinds == { "Situation Assessment", "Action Plan & Resources",
                "Long-term Support Strategy" }

PanelsShown(h) == { shown[h][i].kind : i \in 1 .. Len(shown[h]) } \cap PanelKinds

\* the error panel: the exception text followed by the remediation hint
ErrorPanelShown(h) ==
    \E i \in 1 .. Len(shown[h]) - 1 :
        /\ shown[h][i] = Element("error", << "An error occurred: ", exc[h].msg >>)
        /\ shown[h][i + 1] = Element("error", << "Please check your API key and try again." >>)

AnyErrorPanel(h) ==
    \E i \in 1 .. Len(shown[h]) :
        /\ shown[h][i].kind = "error"
        /\ shown[h][i].text[1] = "An error occurred: "

SpinnerShown(h) == \E i \in 1 .. Len(shown[h]) : shown[h][i].kind = "spinner"

Raised(h) == exc[h] # NoExc

AssistantOnly(conv) == SelectSeq(conv, LAMBDA m : m.role = "assistant")

\* the texts of the assistant turns, in order, the empty string for an absent
\* or null text
KeptTexts(conv) ==
    LET kept == AssistantOnly(conv)
    IN [i \in 1 .. Len(kept) |->
            IF kept[i].content.k = "str" THEN kept[i].content.s ELSE << >>]

\* every assistant turn carries a string text or no text key
Textual(conv) ==
    LET kept == AssistantOnly(conv)
    IN \A i \in 1 .. Len(kept) : kept[i].content.k # "none"

\* the texts with the separator between consecutive ones
RECURSIVE RefJoin(_)
RefJoin(texts) ==
    IF texts = << >> THEN << >>
    ELSE IF Len(texts) = 1 THEN texts[1]
    ELSE texts[1] \o Sep \o RefJoin(Tail(texts))

RefFragment(frags, i) == IF i <= Len(frags) THEN frags[i] ELSE << >>

RefBuckets(joined) ==
    LET frags == str_split(joined, Sep)
    IN [ assessment |-> RefFragment(frags, 1),
         action |-> RefFragment(frags, 2),
         followup |-> RefFragment(frags, 3) ]

BucketAt(o, i) == CASE i = 1 -> o.assessment [] i = 2 -> o.action [] i = 3 -> o.followup

EndsWithNewline(t) == t # << >> /\ t[Len(t)] = NL
HasBoundary(t) == str_find(t, Sep, 1) # 0

----------------------------------------------------------------------------
(* C1: when user_proxy.initiate_chat raises in a submission made with a     *)
(* credential, the record is what it was before the submission at every    *)
(* point of the submission (never a mixture of old and new buckets), and   *)
(* the error panel is what the pass ends with.                             *)
C1_ChatFailureKeepsRecord ==
    \A h \in Runs :
        /\ pc[h] \in { "task", "agents", "chat" } => output = pre[h]
        /\ exc[h].at = "chat" =>
              /\ api_key[h] # ""
              /\ output = pre[h]
              /\ ~stored[h]
              /\ pc[h] = "done" => ErrorPanelShown(h) /\ PanelsShown(h) = { }

C1_Witness ==
    /\ pc[1] = "done"
    /\ exc[1].at = "chat"
    /\ output = pre[1]
    /\ output # EmptyOutput
    /\ ErrorPanelShown(1)

(* C2: a submission with an empty credential does not start the pipeline   *)
(* (no task, no agents, no chat), shows the credential-missing message and *)
(* no spinner, and leaves the record unchanged, whatever the form holds.   *)
C2_NoCredentialNoPipeline ==
    \A h \in Runs :
        (pc[h] # "idle" /\ api_key[h] = "") =>
            /\ pc[h] = "done"
            /\ shown[h] = << KeyMissing >>
            /\ ~SpinnerShown(h)
            /\ task[h] = << >> /\ agents[h] = << >> /\ conversation[h] = << >>
            /\ ~Raised(h) /\ ~stored[h]
            /\ output = pre[h]

C2_Witness ==
    /\ pc[1] = "done"
    /\ api_key[1] = ""
    /\ form[1] # DefaultForm
    /\ output # EmptyOutput
    /\ shown[1] = << KeyMissing >>

(* C3, as claimed: the stored buckets are the first three fragments of the *)
(* assistant texts joined with the separator BETWEEN them.                 *)
C3_SeparatorJoinReference ==
    stored[1] => output = RefBuckets(RefJoin(KeptTexts(conversation[1])))

(* C3, amended: the stored buckets are the first three fragments of the    *)
(* assistant texts each FOLLOWED by the separator; this is the claimed     *)
(* reference whenever the separator-joined text does not end with a        *)
(* newline, and three newline-free texts A, B, C give A, B, C.             *)
C3_TerminatorJoinReference ==
    stored[1] =>
        LET texts == KeptTexts(conversation[1])
            joined == RefJoin(texts)
        IN /\ output = RefBuckets(IF texts = << >> THEN << >> ELSE joined \o Sep)
           /\ ~EndsWithNewline(joined) => output = RefBuckets(joined)
           /\ (Len(texts) = 3 /\ \A i \in 1 .. 3 : \A j \in 1 .. Len(texts[i]) : texts[i][j] # NL)
                 => output = [ assessment |-> texts[1], action |-> texts[2],
                               followup |-> texts[3] ]

C3_Witness ==
    /\ stored[1]
    /\ Len(conversation[1]) = 3
    /\ KeptTexts(conversation[1]) = << << "a" >>, << "a", "a" >>, << "a" >> >>
    /\ pre[1] = PriorOutput
    /\ output = [ assessment |-> << "a" >>, action |-> << "a", "a" >>, followup |-> << "a" >> ]

(* C4, as claimed: with k < 3 assistant turns (string or absent texts) the *)
(* segmentation does not raise and every bucket at position k or later is  *)
(* the empty string.                                                       *)
C4_MissingBucketsEmpty ==
    LET conv == conversation[1]
        k == Len(AssistantOnly(conv))
    IN (Textual(conv) /\ k < 3) =>
          /\ ~Raised(1)
          /\ stored[1] => \A i \in (k + 1) .. 3 : BucketAt(output, i) = << >>

(* C4, amended: with k < 3 assistant turns (string or absent texts) the    *)
(* segmentation does not raise, and every bucket at position k or later is *)
(* the empty string provided no assistant text contains a two-newline      *)
(* boundary or ends with a newline.                                        *)
C4_MissingBucketsEmptyWithoutBoundaries ==
    LET conv == conversation[1]
        texts == KeptTexts(conv)
        k == Len(texts)
    IN (Textual(conv) /\ k < 3) =>
          /\ ~Raised(1)
          /\ (stored[1] /\ \A i \in 1 .. k : ~HasBoundary(texts[i]) /\ ~EndsWithNewline(texts[i]))
                => \A i \in (k + 1) .. 3 : BucketAt(output, i) = << >>

C4_Witness ==
    /\ stored[1]
    /\ Len(conversation[1]) = 3
    /\ KeptTexts(conversation[1]) = << << "a" >>, << NL, "a" >> >>
    /\ pre[1] = PriorOutput
    /\ output = [ assessment |-> << "a" >>, action |-> << NL, "a" >>, followup |-> << >> ]

(* C5: a chat history with no assistant turn is segmented without raising  *)
(* and the run stores three empty buckets.                                 *)
C5_NoAssistantAllEmpty ==
    AssistantOnly(conversation[1]) = << >> =>
        /\ ~Raised(1)
        /\ stored[1] => output = EmptyOutput

C5_Witness ==
    /\ stored[1]
    /\ Len(conversation[1]) = 2
    /\ conversation[1][1].role = "user" /\ conversation[1][2].role = "absent"
    /\ conversation[1][1].content = PyNone
    /\ pre[1] = PriorOutput
    /\ output = EmptyOutput

(* C6: the support-system field of the prompt is "None reported" for an    *)
(* empty selection and otherwise the selected labels in selection order    *)
(* with ", " between them (the label "None" alone renders "None").         *)
C6_SupportFieldRendering ==
    pc[1] = "agents" =>
        LET sel == form[1].support_system
            field == Tail(task[1][5])
        IN /\ Head(task[1][5]) = "Support System: "
           /\ IF sel = << >>
              THEN field = << "None reported" >>
              ELSE /\ Len(field) = 2 * Len(sel) - 1
                   /\ \A i \in 1 .. Len(sel) : field[2 * i - 1] = sel[i]
                   /\ \A i \in 1 .. Len(sel) - 1 : field[2 * i] = ", "

C6_Witness ==
    /\ pc[1] = "agents"
    /\ form[1].support_system = << "None" >>
    /\ task[1][5] = << "Support System: ", "None" >>

C8_LastStoreWinsWhole ==
    /\ lastStore = 0 => output = EmptyOutput
    /\ \A h \in Runs :
          (lastStore = h /\ stored[h]) =>
              output = RefBuckets(full_response[h])
    /\ output \in { EmptyOutput } \cup
          { RefBuckets(concat_loop(c, << >>).val) : c \in { d \in ConcConvs : Textual(d) } }

C8_Witness ==
    /\ pc[1] = "done" /\ pc[2] = "done"
    /\ stored[1] /\ stored[2]
    /\ ticket[1] < ticket[2]
    /\ lastStore = 1
    /\ output = RefBuckets(full_response[1])
    /\ output # RefBuckets(full_response[2])

(* C9, as claimed: whenever the error panel is shown, the record after the *)
(* submission is the record before it.                                     *)
C9_AnyFailureKeepsRecord ==
    \A h \in Runs : (pc[h] = "done" /\ Raised(h)) => output = pre[h]

(* C9, amended: when a step before the store raises (agent construction,   *)
(* the external call, segmentation) the record after the submission is the *)
(* record before it; when a display step after the store raises, the       *)
(* record is the one this submission stored.                               *)
C9_FailureBeforeStoreKeepsRecord ==
    \A h \in Runs :
        /\ exc[h].at \in { "agents", "chat", "segment" } => (~stored[h] /\ output = pre[h])
        /\ exc[h].at \in DisplaySteps =>
              (stored[h] /\ output = RefBuckets(full_response[h]))
        /\ Raised(h) => exc[h].at \in { "agents", "chat", "segment" } \cup DisplaySteps

C9_Witness ==
    /\ pc[1] = "done"
    /\ exc[1].at = "segment"
    /\ ErrorPanelShown(1)
    /\ output = pre[1]
    /\ output # EmptyOutput

(* C10, as claimed: a turn whose role or text is absent or not a string     *)
(* never makes the segmentation raise; its text counts as the empty string *)
(* and the other assistant turns still reach the buckets.                  *)
C10_MalformedTurnsDegrade ==
    /\ ~Raised(1)
    /\ stored[1] =>
          LET texts == KeptTexts(conversation[1])
          IN output = RefBuckets(IF texts = << >> THEN << >> ELSE RefJoin(texts) \o Sep)

====
